---- MODULE Spec2Model ----
(***************************************************************************)
(* A model of wrapper/src/libvmaf.cpp: the StatVector sample series, the   *)
(* Result container with its score aggregation policy, and the extern "C"  *)
(* entry point compute_vmaf with the global CPU capability.                *)
(*                                                                         *)
(* A double is a record [nan, n, d]: either NaN or the rational n/d in     *)
(* lowest terms with d > 0.  Arithmetic on the samples used here is exact  *)
(* in this representation; sqrt is rounded down to a grid of 1/SqrtScale.  *)
(* Samples are non-negative, so e + 1.0 and the sums are never zero and    *)
(* no infinity arises; DDiv is left undefined for a zero divisor.          *)
(***************************************************************************)
EXTENDS Integers, Sequences, FiniteSets, TLC

\* ------------------------------------------------------------ bounds

\* Longest series the caller builds with append.
MaxLen == 3

\* Longest series the caller hands to set_scores.
MaxStored == 2

\* ------------------------------------------------------------ doubles

Abs(x) == IF x < 0 THEN -x ELSE x

RECURSIVE GCD(_, _)
GCD(a, b) == IF b = 0 THEN a ELSE GCD(b, a % b)

NaN == [nan |-> TRUE, n |-> 0, d |-> 1]

\* The double n/d, d > 0, in lowest terms.
Rat(n, d) ==
    LET g == GCD(Abs(n), d)
    IN  [nan |-> FALSE, n |-> n \div g, d |-> d \div g]

Num(i) == Rat(i, 1)

DAdd(x, y) == IF x.nan \/ y.nan THEN NaN ELSE Rat(x.n * y.d + y.n * x.d, x.d * y.d)

DSub(x, y) == IF x.nan \/ y.nan THEN NaN ELSE Rat(x.n * y.d - y.n * x.d, x.d * y.d)

DMul(x, y) == IF x.nan \/ y.nan THEN NaN ELSE Rat(x.n * y.n, x.d * y.d)

\* x / y for y # 0 (a zero divisor does not arise for the samples modelled).
DDiv(x, y) ==
    CASE x.nan \/ y.nan -> NaN
      [] ~(x.nan \/ y.nan) /\ y.n > 0 -> Rat(x.n * y.d, x.d * y.n)
      [] ~(x.nan \/ y.nan) /\ y.n < 0 -> Rat(-(x.n * y.d), x.d * (-y.n))

\* x < y; every comparison with NaN is false.
DLess(x, y) == ~x.nan /\ ~y.nan /\ x.n * y.d < y.n * x.d

\* floor and ceil of <cmath>: NaN stays NaN.
DFloor(x) == IF x.nan THEN NaN ELSE Num(x.n \div x.d)

DCeil(x) == IF x.nan THEN NaN ELSE Num(-((-x.n) \div x.d))

\* Grid on which sqrt is rounded.
SqrtScale == 10 * 10

RECURSIVE ISqrtFrom(_, _)
ISqrtFrom(m, k) == IF (k + 1) * (k + 1) > m THEN k ELSE ISqrtFrom(m, k + 1)

\* sqrt of <cmath>: NaN for NaN and negative arguments, else rounded down to the grid.
DSqrt(x) ==
    IF x.nan \/ x.n < 0 THEN NaN
    ELSE Rat(ISqrtFrom((x.n * SqrtScale * SqrtScale) \div x.d, 0), SqrtScale)

IntMin == -2147483647 - 1

\* (int)NaN is undefined: the values builds give it (cvttsd2si yields INT_MIN,
\* fcvtzs yields 0).
NanAsInt == {IntMin, 0}

\* (int)x for an integral x in range, and nanInt, this build's choice, for NaN.
IntOfDouble(x, nanInt) == IF x.nan THEN nanInt ELSE x.n

\* ------------------------------------------------------------ StatVector

\* What a call gives back: a double, or a thrown exception, or undefined behaviour.
Value(v) == [kind |-> "value", val |-> v]

Throw(what) == [kind |-> what, val |-> NaN]

RECURSIVE SumOver(_, _, _)
\* The loop  for (double e : l) sum += f(e)  started at sum = acc.
SumOver(l, f(_), acc) ==
    IF l = <<>> THEN acc ELSE SumOver(Tail(l), f, DAdd(acc, f(Head(l))))

\* _assert_size: TRUE when it throws.
assert_size_off_by_one(l) == Len(l) <= 1

assert_size(l) == Len(l) = 0

EmptyError == Throw("runtime_error")

mean(l) ==
    IF assert_size(l) THEN EmptyError
    ELSE Value(DDiv(SumOver(l, LAMBDA e : e, Num(0)), Num(Len(l))))

RECURSIVE MinLoop(_, _)
MinLoop(l, min_) ==
    IF l = <<>> THEN min_
    ELSE MinLoop(Tail(l), IF DLess(Head(l), min_) THEN Head(l) ELSE min_)

minimum(l) ==
    IF assert_size(l) THEN EmptyError ELSE Value(MinLoop(l, l[1]))

harmonic_mean(l) ==
    IF assert_size(l) THEN EmptyError
    ELSE LET sum == SumOver(l, LAMBDA e : DDiv(Num(1), DAdd(e, Num(1))), Num(0))
         IN  Value(DSub(DDiv(Num(1), DDiv(sum, Num(Len(l)))), Num(1)))

second_moment(l) ==
    IF assert_size(l) THEN EmptyError
    ELSE Value(DDiv(SumOver(l, LAMBDA e : DMul(e, e), Num(0)), Num(Len(l))))

var(l) ==
    LET m2 == second_moment(l)
        m  == mean(l)
    IN  IF m2.kind # "value" THEN m2
        ELSE IF m.kind # "value" THEN m
        ELSE Value(DSub(m2.val, DMul(m.val, m.val)))

std(l) ==
    LET v == var(l)
    IN  IF v.kind # "value" THEN v ELSE Value(DSqrt(v.val))

RECURSIVE InsertSorted(_, _)
InsertSorted(e, l) ==
    IF l = <<>> THEN <<e>>
    ELSE IF DLess(Head(l), e) THEN <<Head(l)>> \o InsertSorted(e, Tail(l))
    ELSE <<e>> \o l

RECURSIVE sort(_)
\* std::sort(l.begin(), l.end()) on a copy.
sort(l) == IF l = <<>> THEN <<>> ELSE InsertSorted(Head(l), sort(Tail(l)))

\* perc after the two clamping tests of percentile.
Clamp(perc) ==
    IF DLess(perc, Num(0)) THEN Num(0)
    ELSE IF DLess(Num(100), perc) THEN Num(100)
    ELSE perc

\* pos = perc * (size - 1) / 100.0
Pos(l, perc) == DDiv(DMul(Clamp(perc), Num(Len(l) - 1)), Num(100))

\* percentile with nanInt the int this build gives for (int)NaN.  The result
\* carries the two indices; an index outside the sorted copy is undefined
\* behaviour (kind "ub").
percentile(l, perc, nanInt) ==
    IF assert_size(l) THEN [kind |-> EmptyError.kind, val |-> NaN, lo |-> 0, hi |-> 0]
    ELSE
    LET sorted    == sort(l)
        pos       == Pos(l, perc)
        pos_left  == IntOfDouble(DFloor(pos), nanInt)
        pos_right == IntOfDouble(DCeil(pos), nanInt)
        InRange(i) == 0 <= i /\ i < Len(l)
    IN  IF ~InRange(pos_left) \/ ~InRange(pos_right)
        THEN [kind |-> "ub", val |-> NaN, lo |-> pos_left, hi |-> pos_right]
        ELSE IF pos_left = pos_right
        THEN [kind |-> "value", val |-> sorted[pos_left + 1],
              lo |-> pos_left, hi |-> pos_right]
        ELSE [kind |-> "value",
              val |-> DAdd(DMul(sorted[pos_left + 1], DSub(Num(pos_right), pos)),
                           DMul(sorted[pos_right + 1], DSub(pos, Num(pos_left)))),
              lo |-> pos_left, hi |-> pos_right]

\* ------------------------------------------------------------ state

VARIABLES
    heap,                    \* the sequence held by each object
    ref,                     \* the object each name denotes
    d,                       \* Result::d: the keys present in the map
    score_aggregate_method,  \* Result::score_aggregate_method
    last,                    \* the last call of the caller and what it gave back
    given,                   \* history: the method and the series the caller last set, the
                             \* keys it set, and those set before the last change of method
    cpu,                     \* the global  enum vmaf_cpu cpu
    machine,                 \* what cpu_autodetect() returns on this machine
    vmafBase,                \* the standard class VmafException derives from
    serialized,              \* whether the caller serializes its invocations
    pc,                      \* where each invocation of compute_vmaf stands
    disable_avx,             \* vmafSettings->disable_avx of each invocation
    vmaf_score,              \* the double behind each caller's output pointer
    entry_score,             \* that double when the invocation began
    written,                 \* whether line 233 ran in the invocation
    outcome,                 \* what RunVmaf did in the invocation
    status,                  \* the int compute_vmaf returned
    ran                      \* cpu and disable_avx when the engine was last called

statVars == <<heap, ref, d, score_aggregate_method, last, given>>

computeVars == <<cpu, machine, vmafBase, serialized, pc, disable_avx, vmaf_score,
                 entry_score, written, outcome, status, ran>>

vars == <<heap, ref, d, score_aggregate_method, last, given, cpu, machine, vmafBase,
          serialized, pc, disable_avx, vmaf_score, entry_score, written, outcome,
          status, ran>>

\* Metric names used as map keys.
Keys == {"adm2", "vmaf"}

\* The caller's StatVector s and the std::vector vec it got from getVector; the
\* map node of each key holds a StatVector of its own.
Cells == {"s", "vec"} \cup Keys

\* Sample values the caller appends.
Samples == {Num(0), Num(2)}

\* Arguments the caller gives percentile.
PercArgs == {Num(-50), Num(0), Num(25), Num(50), Num(100), Num(150), NaN}

Methods == {"MEAN", "MINIMUM", "HARMONIC_MEAN"}

\* The sequence behind a name, and the series stored under a key.
Series(name) == heap[ref[name]]

Stored(key) == heap[ref[key]]

NoKeys == {}

\* The record of a call: its name and argument, and what it gave back.
Call(op, arg, perc, res) ==
    [op |-> op, arg |-> arg, perc |-> perc, kind |-> res.kind, val |-> res.val,
     lo |-> 0, hi |-> 0, keys |-> NoKeys, flag |-> FALSE]

Void == [kind |-> "void", val |-> NaN]

\* ------------------------------------------------------------ StatVector calls

\* StatVector::StatVector(): the caller starts a new, empty s.
StatVectorNew ==
    /\ heap' = [heap EXCEPT ![ref["s"]] = <<>>]
    /\ last' = Call("StatVector", "s", NaN, Void)
    /\ UNCHANGED <<ref, d, score_aggregate_method, given>>
    /\ UNCHANGED computeVars

\* StatVector::StatVector(std::vector<double> l) : l(l), from the caller's vec.
StatVectorFrom ==
    /\ heap' = [heap EXCEPT ![ref["s"]] = heap[ref["vec"]]]
    /\ last' = Call("StatVector(l)", "s", NaN, Void)
    /\ UNCHANGED <<ref, d, score_aggregate_method, given>>
    /\ UNCHANGED computeVars

\* std::vector<double> getVector() { return l; }  assigned to dst.
getVector(dst, src) ==
    /\ heap' = [heap EXCEPT ![ref[dst]] = heap[ref[src]]]
    /\ ref' = ref

GetVector ==
    /\ getVector("vec", "s")
    /\ last' = Call("getVector", "s", NaN, Void)
    /\ UNCHANGED <<d, score_aggregate_method, given>>
    /\ UNCHANGED computeVars

\* The caller changes the vector it got: vec.push_back(e).
VecPushBack(e) ==
    /\ Len(Series("vec")) < MaxLen
    /\ heap' = [heap EXCEPT ![ref["vec"]] = Append(@, e)]
    /\ last' = Call("push_back", "vec", NaN, Void)
    /\ UNCHANGED <<ref, d, score_aggregate_method, given>>
    /\ UNCHANGED computeVars

\* void append(double e) { l.push_back(e); }
AppendSample(e) ==
    /\ Len(Series("s")) < MaxLen
    /\ heap' = [heap EXCEPT ![ref["s"]] = Append(@, e)]
    /\ last' = Call("append", "s", NaN, Void)
    /\ UNCHANGED <<ref, d, score_aggregate_method, given>>
    /\ UNCHANGED computeVars

\* A call of s that changes nothing and gives back res.
Query(op, res) ==
    /\ last' = Call(op, "s", NaN, res)
    /\ UNCHANGED <<heap, ref, d, score_aggregate_method, given>>
    /\ UNCHANGED computeVars

Size == Query("size", Value(Num(Len(Series("s")))))

Mean == Query("mean", mean(Series("s")))

Minimum == Query("minimum", minimum(Series("s")))

HarmonicMean == Query("harmonic_mean", harmonic_mean(Series("s")))

SecondMoment == Query("second_moment", second_moment(Series("s")))

Var == Query("var", var(Series("s")))

Std == Query("std", std(Series("s")))

Percentile(perc, nanInt) ==
    LET res == percentile(Series("s"), perc, nanInt)
    IN  /\ last' = [Call("percentile", "s", perc, res) EXCEPT !.lo = res.lo, !.hi = res.hi]
        /\ UNCHANGED <<heap, ref, d, score_aggregate_method, given>>
        /\ UNCHANGED computeVars
    /\ UNCHANGED computeVars

\* ------------------------------------------------------------ Result calls

\* d[key] of std::map reads the node of key; a key not yet in the map gets a
\* node holding a default-constructed, empty StatVector.
at_key(key) == IF key \in d THEN Stored(key) ELSE <<>>

\* A lookup with d.find(key), which inserts nothing.
keys_after_find(key) == d

\* The keys of the map after d[key].
keys_after_index(key) == d \cup {key}

\* set_scores keeping a reference to the caller's series in place of a copy.
set_scores_by_reference(key, scores) ==
    /\ d' = keys_after_index(key)
    /\ ref' = [ref EXCEPT ![key] = ref[scores]]
    /\ heap' = heap

\* void set_scores(key, scores) { d[key] = scores; }
set_scores(key, scores) ==
    /\ d' = keys_after_index(key)
    /\ heap' = [heap EXCEPT ![ref[key]] = heap[ref[scores]]]
    /\ ref' = ref

SetScores(key) ==
    /\ Len(Series("s")) <= MaxStored
    /\ set_scores(key, "s")
    /\ last' = Call("set_scores", key, NaN, Void)
    /\ given' = [given EXCEPT !.scores[key] = Series("s"), !.keys = @ \cup {key},
                              !.stale = @ \ {key}]
    /\ UNCHANGED score_aggregate_method
    /\ UNCHANGED computeVars

\* StatVector get_scores(key) { return d[key]; }  assigned to dst.
get_scores(dst, key) ==
    /\ d' = keys_after_index(key)
    /\ heap' = [heap EXCEPT ![ref[dst]] = at_key(key)]
    /\ ref' = ref

\* The caller's  s = result.get_scores(key).
GetScores(key) ==
    /\ get_scores("s", key)
    /\ last' = Call("get_scores", key, NaN, Void)
    /\ UNCHANGED <<score_aggregate_method, given>>
    /\ UNCHANGED computeVars

\* bool has_scores(key) { return d.find(key) != d.end(); }
HasScores(key) ==
    /\ last' = [Call("has_scores", key, NaN, [kind |-> "bool", val |-> NaN])
                    EXCEPT !.flag = key \in d]
    /\ UNCHANGED <<heap, ref, d, score_aggregate_method, given>>
    /\ UNCHANGED computeVars

\* get_score choosing mean() for MINIMUM and minimum() for MEAN.
get_score_swapped(method, list) ==
    IF method = "MINIMUM" THEN mean(list)
    ELSE IF method = "HARMONIC_MEAN" THEN harmonic_mean(list)
    ELSE minimum(list)

\* The body of get_score on the copy list of the series.
get_score(method, list) ==
    IF method = "MINIMUM" THEN minimum(list)
    ELSE IF method = "HARMONIC_MEAN" THEN harmonic_mean(list)
    ELSE mean(list)

\* double get_score(key): list = get_scores(key) is a local copy.
GetScore(key) ==
    /\ d' = keys_after_index(key)
    /\ last' = Call("get_score", key, NaN, get_score(score_aggregate_method, at_key(key)))
    /\ UNCHANGED <<heap, ref, score_aggregate_method, given>>
    /\ UNCHANGED computeVars

\* get_keys: the keys of the map (a std::map walks them in key order).
GetKeys ==
    /\ last' = [Call("get_keys", "-", NaN, [kind |-> "keys", val |-> NaN]) EXCEPT !.keys = d]
    /\ UNCHANGED <<heap, ref, d, score_aggregate_method, given>>
    /\ UNCHANGED computeVars

SetScoreAggregateMethod(m) ==
    /\ score_aggregate_method' = m
    /\ last' = Call("setScoreAggregateMethod", m, NaN, Void)
    /\ given' = [given EXCEPT !.method = m, !.stale = given.keys]
    /\ UNCHANGED <<heap, ref, d>>
    /\ UNCHANGED computeVars

\* ------------------------------------------------------------ compute_vmaf

\* The threads that invoke compute_vmaf.
Threads == {"t1", "t2"}

\* Scores RunVmaf returns.
Scores == {Num(0), Num(97)}

\* Types RunVmaf throws: the three the handlers name, a class derived from
\* runtime_error and one from logic_error, a standard exception that is
\* neither, and a value of no class type.
ThrowTypes == {"VmafException", "runtime_error", "logic_error", "overflow_error",
               "out_of_range", "bad_alloc", "int"}

\* The direct base class of a type ("-": none).
Parent(type) ==
    CASE type = "VmafException"  -> vmafBase
      [] type = "overflow_error" -> "runtime_error"
      [] type = "out_of_range"   -> "logic_error"
      [] type \in {"runtime_error", "logic_error", "bad_alloc"} -> "exception"
      [] OTHER -> "-"

RECURSIVE IsA(_, _)
\* Whether a handler for class catches a thrown object of type.
IsA(type, class) == type # "-" /\ (type = class \/ IsA(Parent(type), class))

\* The handlers with the general classes first.
Handlers_general_first ==
    << [class |-> "runtime_error", status |-> -3],
       [class |-> "logic_error", status |-> -4],
       [class |-> "VmafException", status |-> -2] >>

\* The catch clauses of compute_vmaf in their order, each with what it returns.
Handlers ==
    << [class |-> "VmafException", status |-> -2],
       [class |-> "runtime_error", status |-> -3],
       [class |-> "logic_error", status |-> -4] >>

\* The first catch clause that matches type, 0 when none does.
Catches(type) ==
    LET hit == {i \in DOMAIN Handlers : IsA(type, Handlers[i].class)}
    IN  IF hit = {} THEN 0 ELSE CHOOSE i \in hit : \A j \in hit : i <= j

\* No engine call yet in this invocation, or by this thread.
NoOutcome == [kind |-> "none", val |-> NaN, type |-> "-"]

NotRun == [called |-> FALSE, disable_avx |-> FALSE, cpu |-> "VMAF_CPU_NONE"]

\* What RunVmaf does: returns a score or throws.
Returned(score) == [kind |-> "score", val |-> score, type |-> "-"]

Thrown(type) == [kind |-> "throw", val |-> NaN, type |-> type]

Outcomes == {Returned(s) : s \in Scores} \cup {Thrown(x) : x \in ThrowTypes}

\* The score stored whatever RunVmaf did.
writes_score_always(res) == TRUE

\* Line 233 runs only when RunVmaf returned.
writes_score(res) == res.kind = "score"

\* compute_vmaf holding a lock from line 224 until it returns.
entry_blocked_by_lock(t) == \E u \in Threads \ {t} : pc[u] \in {"l226", "l232", "engine"}

\* compute_vmaf takes no lock: nothing holds an invocation back at its entry.
entry_blocked(t) == FALSE

\* Line 226 with the test of disable_avx left out.
cpu_after_226_unconditional(flag) == cpu

\* cpu after  if (vmafSettings->disable_avx) cpu = VMAF_CPU_NONE;
cpu_after_226(flag) == IF flag THEN "VMAF_CPU_NONE" ELSE cpu

Resting(t) == pc[t] \in {"idle", "returned", "propagated"}

\* A caller invokes compute_vmaf; a serializing caller waits for the others.
Invoke(t, flag) ==
    /\ pc[t] \in {"idle", "returned"}
    /\ serialized => \A u \in Threads \ {t} : Resting(u)
    /\ pc' = [pc EXCEPT ![t] = "l224"]
    /\ disable_avx' = [disable_avx EXCEPT ![t] = flag]
    /\ entry_score' = [entry_score EXCEPT ![t] = vmaf_score[t]]
    /\ written' = [written EXCEPT ![t] = FALSE]
    /\ outcome' = [outcome EXCEPT ![t] = NoOutcome]
    /\ status' = [status EXCEPT ![t] = 0]
    /\ UNCHANGED <<cpu, machine, vmafBase, serialized, vmaf_score, ran>>
    /\ UNCHANGED statVars

\* cpu = cpu_autodetect();  cpu is a plain global: with unserialized threads its
\* writes race, and a read sees the value of one of them.
Autodetect(t) ==
    /\ pc[t] = "l224"
    /\ ~entry_blocked(t)
    /\ cpu' = machine
    /\ pc' = [pc EXCEPT ![t] = "l226"]
    /\ UNCHANGED <<machine, vmafBase, serialized, disable_avx, vmaf_score,
                   entry_score, written, outcome, status, ran>>
    /\ UNCHANGED statVars

\* if (vmafSettings->disable_avx) { cpu = VMAF_CPU_NONE; }
DisableAvx(t) ==
    /\ pc[t] = "l226"
    /\ cpu' = cpu_after_226(disable_avx[t])
    /\ pc' = [pc EXCEPT ![t] = "l232"]
    /\ UNCHANGED <<machine, vmafBase, serialized, disable_avx, vmaf_score,
                   entry_score, written, outcome, status, ran>>
    /\ UNCHANGED statVars

\* RunVmaf is called and reads the global cpu.
RunVmafCall(t) ==
    /\ pc[t] = "l232"
    /\ ran' = [ran EXCEPT ![t] = [called |-> TRUE, disable_avx |-> disable_avx[t],
                                  cpu |-> cpu]]
    /\ pc' = [pc EXCEPT ![t] = "engine"]
    /\ UNCHANGED <<cpu, machine, vmafBase, serialized, disable_avx, vmaf_score,
                   entry_score, written, outcome, status>>
    /\ UNCHANGED statVars

\* RunVmaf ends with res, and lines 232 to 250 run: the score is stored and 0
\* returned, or a handler returns its status, or the exception leaves compute_vmaf.
RunVmafEnd(t, res) ==
    /\ pc[t] = "engine"
    /\ outcome' = [outcome EXCEPT ![t] = res]
    /\ written' = [written EXCEPT ![t] = writes_score(res)]
    /\ vmaf_score' = [vmaf_score EXCEPT ![t] = IF writes_score(res) THEN res.val ELSE @]
    /\ status' = [status EXCEPT ![t] =
                    IF res.kind = "score" \/ Catches(res.type) = 0 THEN 0
                    ELSE Handlers[Catches(res.type)].status]
    /\ pc' = [pc EXCEPT ![t] =
                IF res.kind = "throw" /\ Catches(res.type) = 0 THEN "propagated"
                ELSE "returned"]
    /\ UNCHANGED <<cpu, machine, vmafBase, serialized, disable_avx, entry_score, ran>>
    /\ UNCHANGED statVars

\* ------------------------------------------------------------ specifications

\* The caller's objects before its first call: Result() sets the MEAN policy.
InitStat ==
    /\ heap = [c \in Cells |-> <<>>]
    /\ ref = [c \in Cells |-> c]
    /\ d = {}
    /\ score_aggregate_method = "MEAN"
    /\ last = Call("Result", "-", NaN, Void)
    /\ given = [method |-> "MEAN", scores |-> [k \in Keys |-> <<>>], keys |-> NoKeys,
                stale |-> NoKeys]

\* No invocation of compute_vmaf yet; the global cpu is zero-initialized.
InitCompute ==
    /\ cpu = "VMAF_CPU_NONE"
    /\ machine \in {"VMAF_CPU_NONE", "VMAF_CPU_SSE2", "VMAF_CPU_AVX"}
    /\ vmafBase \in {"exception", "runtime_error", "logic_error"}
    /\ serialized \in BOOLEAN
    /\ pc = [t \in Threads |-> "idle"]
    /\ disable_avx = [t \in Threads |-> FALSE]
    /\ vmaf_score \in [Threads -> {Num(-1), Num(97)}]
    /\ entry_score = vmaf_score
    /\ written = [t \in Threads |-> FALSE]
    /\ outcome = [t \in Threads |-> NoOutcome]
    /\ status = [t \in Threads |-> 0]
    /\ ran = [t \in Threads |-> NotRun]

\* The compute_vmaf part at rest, for the specifications of the series.
ComputeAtRest ==
    /\ cpu = "VMAF_CPU_NONE"
    /\ machine = "VMAF_CPU_NONE"
    /\ vmafBase = "exception"
    /\ serialized = TRUE
    /\ pc = [t \in Threads |-> "idle"]
    /\ disable_avx = [t \in Threads |-> FALSE]
    /\ vmaf_score = [t \in Threads |-> Num(-1)]
    /\ entry_score = vmaf_score
    /\ written = [t \in Threads |-> FALSE]
    /\ outcome = [t \in Threads |-> NoOutcome]
    /\ status = [t \in Threads |-> 0]
    /\ ran = [t \in Threads |-> NotRun]

InitVector == InitStat /\ ComputeAtRest

\* A caller working on one StatVector.
NextVector ==
    \/ StatVectorNew
    \/ StatVectorFrom
    \/ \E e \in Samples : AppendSample(e)
    \/ Size
    \/ Mean
    \/ Minimum
    \/ HarmonicMean
    \/ SecondMoment
    \/ Var
    \/ Std
    \/ \E perc \in PercArgs :
          \E nanInt \in IF perc.nan THEN NanAsInt ELSE {0} : Percentile(perc, nanInt)

SpecVector == InitVector /\ [][NextVector]_vars

\* A caller filling and reading a Result.
NextResult ==
    \/ StatVectorNew
    \/ \E e \in Samples : AppendSample(e)
    \/ \E key \in Keys : SetScores(key)
    \/ \E key \in Keys : GetScores(key)
    \/ \E key \in Keys : HasScores(key)
    \/ \E key \in Keys : GetScore(key)
    \/ GetKeys
    \/ \E m \in Methods : SetScoreAggregateMethod(m)

SpecResult == InitVector /\ [][NextResult]_vars

\* A caller passing series and vectors in and out.
NextCopy ==
    \/ StatVectorNew
    \/ StatVectorFrom
    \/ \E e \in Samples : AppendSample(e)
    \/ GetVector
    \/ \E e \in Samples : VecPushBack(e)
    \/ \E key \in Keys : SetScores(key)
    \/ \E key \in Keys : GetScores(key)

SpecCopy == InitVector /\ [][NextCopy]_vars

InitSerial == InitStat /\ InitCompute /\ serialized

InitRace == InitStat /\ InitCompute /\ ~serialized

\* Callers invoking compute_vmaf.
NextCompute ==
    \/ \E t \in Threads, flag \in BOOLEAN : Invoke(t, flag)
    \/ \E t \in Threads : Autodetect(t)
    \/ \E t \in Threads : DisableAvx(t)
    \/ \E t \in Threads : RunVmafCall(t)
    \/ \E t \in Threads, res \in Outcomes : RunVmafEnd(t, res)

\* Invocations one after the other.
SpecSerial == InitSerial /\ [][NextCompute]_vars

\* Invocations from two threads with nothing serializing them.
SpecRace == InitRace /\ [][NextCompute]_vars

\* ------------------------------------------------------------ claims

\* The invocation of t has ended, with a return or with an exception.
Finished(t) == Resting(t) /\ outcome[t].kind # "none"

\* C1: compute_vmaf returns 0 when RunVmaf returns a score, -2 when it throws
\* a VmafException (whatever standard class that derives from), -3 when it
\* throws a std::runtime_error and -4 when it throws a std::logic_error.
C1_StatusPerFailureKind ==
    \A t \in Threads :
        Finished(t) =>
            /\ outcome[t].kind = "score" => pc[t] = "returned" /\ status[t] = 0
            /\ outcome[t].type = "VmafException" => pc[t] = "returned" /\ status[t] = -2
            /\ outcome[t].type \in {"runtime_error", "overflow_error"} =>
                   pc[t] = "returned" /\ status[t] = -3
            /\ outcome[t].type \in {"logic_error", "out_of_range"} =>
                   pc[t] = "returned" /\ status[t] = -4

\* A VmafException that is also a std::runtime_error came back as -2.
C1_Witness ==
    \E t \in Threads :
        /\ pc[t] = "returned"
        /\ outcome[t].type = "VmafException"
        /\ vmafBase = "runtime_error"
        /\ status[t] = -2

\* C2: the double behind the output pointer is written exactly when the
\* returned status is 0; then it holds the score RunVmaf returned, and after a
\* failure it holds what it held when the invocation began.
C2_ScoreWrittenIffSuccess ==
    \A t \in Threads :
        Finished(t) =>
            /\ written[t] <=> (pc[t] = "returned" /\ status[t] = 0)
            /\ written[t] => outcome[t].kind = "score" /\ vmaf_score[t] = outcome[t].val
            /\ ~written[t] => vmaf_score[t] = entry_score[t]

\* A failed invocation left behind the pointer the 97 it held at entry.
C2_Witness ==
    \E t \in Threads :
        /\ pc[t] = "returned"
        /\ status[t] \in {-2, -3, -4}
        /\ ~written[t]
        /\ vmaf_score[t] = Num(97)
        /\ entry_score[t] = Num(97)

\* C3: every failure raised inside RunVmaf, of any kind, is turned into a
\* return code: no invocation of compute_vmaf ends with the exception leaving it.
C3_NothingPropagates == \A t \in Threads : pc[t] # "propagated"

\* C8: in serialized invocations the engine is called with cpu equal to
\* VMAF_CPU_NONE when the invocation's disable_avx is set, and to what
\* cpu_autodetect returned otherwise, whatever earlier invocations asked for.
C8_CpuPerInvocation ==
    \A t \in Threads :
        ran[t].called =>
            ran[t].cpu = IF ran[t].disable_avx THEN "VMAF_CPU_NONE" ELSE machine

\* After an invocation with disable_avx returned, one without it runs the
\* engine with the autodetected capability.
C8_Witness ==
    \E t, u \in Threads :
        /\ t # u
        /\ pc[t] = "returned" /\ ran[t].called /\ ran[t].disable_avx
        /\ ran[t].cpu = "VMAF_CPU_NONE"
        /\ pc[u] = "engine" /\ ~ran[u].disable_avx
        /\ ran[u].cpu = machine /\ machine # "VMAF_CPU_NONE"

\* C9: compute_vmaf takes no lock around cpu: while one invocation is between
\* its write of cpu and the return of its engine, the writes of cpu by another
\* invocation are not held back.
C9_NoLockAroundCpu ==
    \A t, u \in Threads :
        t # u /\ pc[u] \in {"l226", "l232", "engine"} =>
            /\ pc[t] = "l224" => ENABLED Autodetect(t)
            /\ pc[t] = "l226" => ENABLED DisableAvx(t)

\* Both interleavings happened: the engine of an invocation with disable_avx
\* was called with the autodetected capability, and the engine of one without
\* it with VMAF_CPU_NONE.
C9_Witness ==
    \E t, u \in Threads :
        /\ t # u
        /\ machine # "VMAF_CPU_NONE"
        /\ ran[t].called /\ ran[t].disable_avx /\ ran[t].cpu = machine
        /\ ran[u].called /\ ~ran[u].disable_avx /\ ran[u].cpu = "VMAF_CPU_NONE"

\* The statistics that call _assert_size.
Statistics == {"mean", "minimum", "harmonic_mean", "second_moment", "var", "std",
               "percentile"}

\* C4: on an empty StatVector every statistic, percentile for every argument
\* included, throws the runtime_error of _assert_size and gives back no value,
\* and the series is empty afterwards; on a series with a sample none of them
\* throws it.
C4_EmptySeriesAlwaysThrows ==
    [][ last'.op \in Statistics =>
            /\ Series("s") = <<>> =>
                   last'.kind = EmptyError.kind /\ Series("s")' = <<>>
            /\ Series("s") # <<>> => last'.kind # EmptyError.kind
      ]_vars

\* percentile(NaN) on a StatVector made from an empty sequence threw.
C4_Witness ==
    /\ last.op = "percentile"
    /\ last.perc = NaN
    /\ last.kind = "runtime_error"
    /\ Series("s") = <<>>

RECURSIVE Total(_, _, _)
\* f(l[1]) + ... + f(l[k])
Total(l, f(_), k) == IF k = 0 THEN Num(0) ELSE DAdd(Total(l, f, k - 1), f(l[k]))

\* v is a sample of l and no sample is smaller.
IsMinimum(v, l) ==
    /\ \E i \in DOMAIN l : l[i] = v
    /\ \A i \in DOMAIN l : ~DLess(l[i], v)

\* v is a sample of l and no sample is larger.
IsMaximum(v, l) ==
    /\ \E i \in DOMAIN l : l[i] = v
    /\ \A i \in DOMAIN l : ~DLess(v, l[i])

\* v * n is the sum of the samples.
IsMean(v, l) == DMul(v, Num(Len(l))) = Total(l, LAMBDA e : e, Len(l))

\* (v + 1) * (sum of 1 / (e + 1)) is n.
IsShiftedHarmonicMean(v, l) ==
    DMul(DAdd(v, Num(1)), Total(l, LAMBDA e : DDiv(Num(1), DAdd(e, Num(1))), Len(l)))
        = Num(Len(l))

\* C5: for a key the caller bound to a non-empty series, get_score gives the
\* minimum, the shifted harmonic mean or the mean of the series last set for
\* the key, as the method last set (MEAN for a new Result) says.
C5_ScoreByCurrentMethod ==
    last.op = "get_score" /\ last.arg \in given.keys /\ given.scores[last.arg] # <<>> =>
        /\ last.kind = "value"
        /\ given.method = "MINIMUM" => IsMinimum(last.val, given.scores[last.arg])
        /\ given.method = "HARMONIC_MEAN" =>
               IsShiftedHarmonicMean(last.val, given.scores[last.arg])
        /\ given.method = "MEAN" => IsMean(last.val, given.scores[last.arg])

\* get_score gave the minimum of a series that was set before the method was
\* changed to MINIMUM and not set again since.
C5_Witness ==
    /\ last.op = "get_score"
    /\ last.arg \in given.stale
    /\ given.method = "MINIMUM"
    /\ given.scores[last.arg] = <<Num(2), Num(0)>>
    /\ last.val = Num(0)

\* C6: on a non-empty series percentile(p) is the smallest sample for p <= 0
\* and the largest for p >= 100, the sample itself when there is only one, and
\* for every p the two indices stay within the sorted copy.
C6_PercentileEndsAndIndices ==
    last.op = "percentile" /\ Series("s") # <<>> =>
        /\ 0 <= last.lo /\ last.lo < Len(Series("s"))
        /\ 0 <= last.hi /\ last.hi < Len(Series("s"))
        /\ last.kind = "value"
        /\ ~last.perc.nan /\ ~DLess(Num(0), last.perc) => IsMinimum(last.val, Series("s"))
        /\ ~last.perc.nan /\ ~DLess(last.perc, Num(100)) => IsMaximum(last.val, Series("s"))
        /\ Len(Series("s")) = 1 => last.val = Series("s")[1]

\* C7: series are copied at every boundary: changing the vector got from
\* getVector changes no series, and appending to the caller's series, whether
\* it was passed to set_scores or got from get_scores, changes no stored series.
C7_CopiedByValue ==
    [][ /\ last'.op = "push_back" =>
              /\ Series("s")' = Series("s")
              /\ \A key \in Keys : Stored(key)' = Stored(key)
        /\ last'.op = "append" => \A key \in Keys : Stored(key)' = Stored(key)
      ]_vars

\* The caller appended to the series it had passed to set_scores, and the
\* stored series is still the one passed.
C7_Witness ==
    /\ last.op = "append"
    /\ \E key \in given.keys :
          /\ Stored(key) = given.scores[key]
          /\ Stored(key) # <<>>
          /\ Len(Series("s")) = Len(Stored(key)) + 1
          /\ SubSeq(Series("s"), 1, Len(Stored(key))) = Stored(key)

\* C10: get_scores on a key never set gives an empty series and inserts the
\* key, get_score on it throws the empty series error and inserts the key too;
\* has_scores and get_keys report the keys and add none; no call removes one.
C10_ReadingCreatesKey ==
    [][ /\ last'.op = "get_scores" =>
              /\ last'.arg \in d'
              /\ last'.arg \notin d => Series("s")' = <<>>
        /\ last'.op = "get_score" /\ last'.arg \notin d =>
              last'.kind = EmptyError.kind /\ last'.arg \in d'
        /\ last'.op = "has_scores" => d' = d /\ last'.flag = (last'.arg \in d)
        /\ last'.op = "get_keys" => d' = d /\ last'.keys = d
        /\ d \subseteq d'
      ]_vars

\* has_scores is true for a key that no set_scores ever named.
C10_Witness ==
    /\ last.op = "has_scores"
    /\ last.flag
    /\ last.arg \notin given.keys

====
